---- MODULE Spec2Model ----
(***************************************************************************)
(* CmdVault: the template engine (src/types.ts) and the command store of   *)
(* the App component (src/App.tsx) with its editor and cards.              *)
(*                                                                         *)
(* A string is a sequence of lexemes.  The lexemes "{", "}" and " " are    *)
(* the single characters the placeholder pattern and trim() look at; any   *)
(* other lexeme is a run of characters that are neither braces nor white   *)
(* space ("constructor", "Constructor", "x"), which the pattern treats as *)
(* one or more [^}] characters.                                            *)
(***************************************************************************)
EXTENDS Integers, Sequences, FiniteSets, TLC

\* ------------------------------------------------------------------------
\* Bounds
\* ------------------------------------------------------------------------
MaxParts == 3
MaxCreates == 1
MaxTime == 1
MaxLogs == 3
MaxPending == 2
MaxAlerts == 1

\* ------------------------------------------------------------------------
\* Generic sequence helpers
\* ------------------------------------------------------------------------
RECURSIVE Flatten(_)
Flatten(ss) == IF ss = <<>> THEN <<>> ELSE Head(ss) \o Flatten(Tail(ss))

Range(s) == {s[i] : i \in DOMAIN s}

IsPrefixAt(p, s, i) ==
  /\ i >= 1
  /\ i + Len(p) - 1 <= Len(s)
  /\ \A k \in 1..Len(p) : s[i + k - 1] = p[k]

\* ------------------------------------------------------------------------
\* Inputs of the template engine
\* ------------------------------------------------------------------------
LB == "{"
RB == "}"
SP == " "
NL == "\n"
Open  == <<LB, LB>>
Close == <<RB, RB>>

\* "{{" w "}}"
Mark(w) == Open \o w \o Close

\* the pieces templates are written from: literal text, stray brace pairs,
\* a name, the same name padded with spaces, and the name in lower case,
\* which is also a property of Object.prototype
Segments ==
  { <<SP>>, Open, Close,
    Mark(<<"Constructor">>),
    Mark(<<SP, "Constructor", SP>>),
    Mark(<<"constructor">>) }

Templates ==
  UNION { { Flatten(f) : f \in [1..n -> Segments] } : n \in 0..MaxParts }

InputValues == { <<>>, <<"x">>, Mark(<<"Constructor">>) }

\* ------------------------------------------------------------------------
\* JavaScript values met by the engine
\* ------------------------------------------------------------------------
Undefined == [type |-> "undefined", s |-> <<>>]

JsString(s) == [type |-> "string", s |-> s]

\* String(Object), the text a function value turns into when replace()
\* coerces the callback's result to a string
ObjectCtorText ==
  <<"function", SP, "Object()", SP, LB, SP, "[native", SP, "code]", SP, RB>>

\* values is a plain object ({} in the card): a missing own property is
\* looked up on Object.prototype
ObjectPrototype ==
  ( <<"constructor">> :> [type |-> "function", s |-> ObjectCtorText] )

Get(obj, key) ==
  IF key \in DOMAIN obj THEN JsString(obj[key])
  ELSE IF key \in DOMAIN ObjectPrototype THEN ObjectPrototype[key]
  ELSE Undefined

Truthy(v) == v.type = "function" \/ (v.type = "string" /\ v.s # <<>>)

JsToString(v) == v.s

\* the white space and line terminators trim() removes
WhiteSpace == {SP, NL}

\* String.prototype.trim
RECURSIVE TrimStart(_)
TrimStart(s) ==
  IF s # <<>> /\ Head(s) \in WhiteSpace THEN TrimStart(Tail(s)) ELSE s

RECURSIVE TrimEnd(_)
TrimEnd(s) ==
  IF s # <<>> /\ s[Len(s)] \in WhiteSpace
    THEN TrimEnd(SubSeq(s, 1, Len(s) - 1))
  ELSE s

Trim(s) == TrimEnd(TrimStart(s))

\* ------------------------------------------------------------------------
\* The pattern /\{\{([^}]+)\}\}/g
\* ------------------------------------------------------------------------
\* index of the first "}" of s at or after i, Len(s)+1 when there is none
RECURSIVE FirstRB(_, _)
FirstRB(s, i) ==
  IF i > Len(s) THEN Len(s) + 1
  ELSE IF s[i] = RB THEN i
  ELSE FirstRB(s, i + 1)

\* one match attempt at index i: the index of the last character of the
\* match, 0 when the pattern does not match at i.  [^}]+ is greedy and
\* stops at the first "}", and giving characters back never helps because
\* the character after a shorter capture is not "}".
MatchEnd_star(s, i) ==
  IF ~IsPrefixAt(Open, s, i) THEN 0
  ELSE LET j == FirstRB(s, i + 2)
       IN  IF j >= i + 2 /\ IsPrefixAt(Close, s, j) THEN j + 1 ELSE 0

MatchEnd(s, i) ==
  IF ~IsPrefixAt(Open, s, i) THEN 0
  ELSE LET j == FirstRB(s, i + 2)
       IN  IF j > i + 2 /\ IsPrefixAt(Close, s, j) THEN j + 1 ELSE 0

\* the successive matches of the global pattern from index i on (lastIndex),
\* each as [s |-> first index, e |-> last index]
RECURSIVE Scan(_, _)
Scan(s, i) ==
  IF i > Len(s) THEN <<>>
  ELSE LET e == MatchEnd(s, i)
       IN  IF e = 0 THEN Scan(s, i + 1)
           ELSE <<[s |-> i, e |-> e]>> \o Scan(s, e + 1)

\* capture group 1 of a match
Group1(s, m) == SubSeq(s, m.s + 2, m.e - 2)

\* ------------------------------------------------------------------------
\* extractVariables
\* ------------------------------------------------------------------------
SetAdd_push(set, x) == Append(set, x)

\* Set.add on an insertion-ordered Set
SetAdd(set, x) == IF x \in Range(set) THEN set ELSE Append(set, x)

RECURSIVE AddMatches(_, _, _)
AddMatches(matches, s, ms) ==
  IF ms = <<>> THEN matches
  ELSE AddMatches(SetAdd(matches, Trim(Group1(s, Head(ms)))), s, Tail(ms))

extractVariables(tpl) == AddMatches(<<>>, tpl, Scan(tpl, 1))

\* ------------------------------------------------------------------------
\* replaceVariables
\* ------------------------------------------------------------------------
\* the replacer callback (_, key) => values[key.trim()] || `{{${key}}}`
Replacer(vals, key) ==
  LET v == Get(vals, Trim(key))
  IN  IF Truthy(v) THEN JsToString(v) ELSE Open \o key \o Close

\* String.prototype.replace with a global pattern and a function: the text
\* between the matches is copied, each match is replaced by the callback's
\* result, and the result is not scanned again
RECURSIVE ReplaceFrom(_, _, _, _)
ReplaceFrom(s, vals, i, ms) ==
  IF ms = <<>> THEN SubSeq(s, i, Len(s))
  ELSE LET m == Head(ms)
       IN  SubSeq(s, i, m.s - 1) \o Replacer(vals, Group1(s, m))
             \o ReplaceFrom(s, vals, m.e + 1, Tail(ms))

replaceVariables_first(tpl, vals) ==
  LET ms == Scan(tpl, 1)
  IN  ReplaceFrom(tpl, vals, 1, IF ms = <<>> THEN <<>> ELSE <<Head(ms)>>)

replaceVariables_rescan(tpl, vals) ==
  LET once == ReplaceFrom(tpl, vals, 1, Scan(tpl, 1))
  IN  ReplaceFrom(once, vals, 1, Scan(once, 1))

replaceVariables(tpl, vals) == ReplaceFrom(tpl, vals, 1, Scan(tpl, 1))

\* ------------------------------------------------------------------------
\* State
\* ------------------------------------------------------------------------
VARIABLES
  template,      \* the template the engine is applied to (command.template)
  values,        \* the binding object (the card's variables state)
  placeholders,  \* extractVariables(template), once the card has rendered
  finalCommand,  \* replaceVariables(template, values), as of the last render
  rendered,      \* the card has rendered
  commands,      \* App: the command collection
  isEditorOpen,  \* App: the editor modal is shown
  editingCommand,\* App: the command handed to the editor, NoCommand if none
  formData,      \* CommandEditor: the form contents
  alerts,        \* number of notices shown to the user with alert()
  nextUuid,      \* number of ids drawn from crypto.randomUUID() so far
  now,           \* the last value read from Date.now()
  lastOp,        \* history: the last operation, and whether its id was stored
  blob,          \* localStorage: the item cmdvault_commands
  searchQuery,   \* App: the text of the search box
  selectedCategory, \* App: the category picked in the sidebar
  logs,          \* Dashboard: the logs prop
  stats,         \* Dashboard: the stats memo, as of the last render
  copied,        \* CommandCard: the copied flag
  isGenerating,  \* CommandEditor: the spinner flag of the AI section
  aiPrompt,      \* CommandEditor: the text of the AI prompt input
  pending,       \* the AI requests in flight
  cards,         \* the mounted cards by command id: bindings, confirm state
  cardRevision,  \* which of the two CommandCard revisions is built
  tagInput       \* CommandEditor: the text of the tag input

engineVars == <<template, values, placeholders, finalCommand, rendered>>

storeVars ==
  <<commands, isEditorOpen, editingCommand, formData, alerts, nextUuid, now,
    lastOp, blob>>

viewVars == <<searchQuery, selectedCategory>>

dashVars == <<logs, stats, copied>>

aiVars == <<isGenerating, aiPrompt, pending>>

widgetVars == <<cards, cardRevision, tagInput>>

vars == <<engineVars, storeVars, viewVars, dashVars, aiVars, widgetVars>>

EmptyObject == [k \in {} |-> <<>>]

\* ------------------------------------------------------------------------
\* The engine applied to one template, as a card does
\* ------------------------------------------------------------------------
EngineInit ==
  /\ template \in Templates
  /\ values = EmptyObject
  /\ placeholders = <<>>
  /\ finalCommand = <<>>
  /\ rendered = FALSE

\* the first render of the card: both memos are computed
Render ==
  /\ ~rendered
  /\ placeholders' = extractVariables(template)
  /\ finalCommand' = replaceVariables(template, values)
  /\ rendered' = TRUE
  /\ UNCHANGED <<template, values, storeVars, viewVars, dashVars, aiVars,
                 widgetVars>>

\* the other bindings are dropped
SetKey_replace(obj, key, value) == [k \in {key} |-> value]

\* setVariables(prev => ({ ...prev, [key]: value }))
SetKey(obj, key, value) ==
  [k \in DOMAIN obj \cup {key} |-> IF k = key THEN value ELSE obj[k]]

\* one input per placeholder; the render that follows recomputes finalCommand
handleVariableChange(key, value) ==
  /\ rendered
  /\ key \in Range(placeholders)
  /\ values' = SetKey(values, key, value)
  /\ values' # values
  /\ finalCommand' = replaceVariables(template, values')
  /\ UNCHANGED <<template, placeholders, rendered, storeVars, viewVars,
                 dashVars, widgetVars, aiVars>>

EngineNext ==
  \/ Render
  \/ \E key \in Range(placeholders), value \in InputValues :
        handleVariableChange(key, value)

\* a click on the copy button: navigator.clipboard.writeText(finalCommand)
\* resolves (ok) or rejects; a rejection is written to the console only
\* (console.error): no alert, no state of the card changes.  lastOp records
\* the click and whether the write resolved.
handleCopy(ok) ==
  /\ rendered
  /\ copied' = (ok \/ copied)
  /\ lastOp' = [op |-> "copy", found |-> ok]
  /\ UNCHANGED <<logs, stats, widgetVars, engineVars, commands, isEditorOpen,
                 editingCommand, formData, alerts, nextUuid, now, blob,
                 viewVars, aiVars>>

\* setTimeout(() => setCopied(false), 2000)
CopiedTimeout ==
  /\ copied
  /\ copied' = FALSE
  /\ UNCHANGED <<logs, stats, widgetVars, engineVars, storeVars, viewVars,
                 aiVars>>

CardNext ==
  \/ EngineNext
  \/ \E ok \in BOOLEAN : handleCopy(ok)
  \/ CopiedTimeout

\* ------------------------------------------------------------------------
\* The code display of the card (first revision)
\* ------------------------------------------------------------------------
\* one match attempt of /(\{\{.*?\}\})/ at index i: "{{", then lazily as
\* few characters as possible, none of them a line terminator, then "}}";
\* the index of the last character of the match, 0 when there is none
RECURSIVE LazyEnd(_, _)
LazyEnd(s, j) ==
  IF j + 1 > Len(s) THEN 0
  ELSE IF IsPrefixAt(Close, s, j) THEN j + 1
  ELSE IF s[j] = NL THEN 0
  ELSE LazyEnd(s, j + 1)

DisplayMatchEnd(s, i) ==
  IF ~IsPrefixAt(Open, s, i) THEN 0 ELSE LazyEnd(s, i + 2)

\* template.split(/(\{\{.*?\}\})/): the text before each match, the match,
\* and the text after the last match; from is where the current text began
RECURSIVE Split(_, _, _)
Split(s, i, from) ==
  IF i > Len(s) THEN <<SubSeq(s, from, Len(s))>>
  ELSE LET e == DisplayMatchEnd(s, i)
       IN  IF e = 0 THEN Split(s, i + 1, from)
           ELSE <<SubSeq(s, from, i - 1), SubSeq(s, i, e)>>
                  \o Split(s, e + 1, e + 1)

\* a React child: a string is shown as text, a function is not shown
ChildText(v) == IF v.type = "string" THEN v.s ELSE <<>>

\* the text of the span one part is shown as
PartText(vals, part) ==
  IF IsPrefixAt(Open, part, 1) /\ IsPrefixAt(Close, part, Len(part) - 1)
    THEN LET key == Trim(SubSeq(part, 3, Len(part) - 2))
             value == Get(vals, key)
         IN  IF Truthy(value) THEN ChildText(value) ELSE part
  ELSE part

\* the text of the code display
Display(tpl, vals) ==
  LET parts == Split(tpl, 1, 1)
  IN  Flatten([i \in DOMAIN parts |-> PartText(vals, parts[i])])

\* the pieces the displayed templates are written from: a line break, a
\* name, brace pairs, a marker with a line break inside and a marker with a
\* brace inside
DisplaySegments ==
  { <<NL>>, <<"a">>, Open, Close,
    Mark(<<"a", NL, "b">>), Mark(<<"a", RB, "b">>) }

DisplayTemplates ==
  UNION { { Flatten(f) : f \in [1..n -> DisplaySegments] } : n \in 0..MaxParts }

DisplayInit ==
  /\ template \in DisplayTemplates
  /\ values = EmptyObject
  /\ placeholders = <<>>
  /\ finalCommand = <<>>
  /\ rendered = FALSE

\* ------------------------------------------------------------------------
\* The command store of App, with the editor that feeds it
\* ------------------------------------------------------------------------
DecimalId(n) == [kind |-> "decimal", n |-> n]

\* the n-th value returned by crypto.randomUUID()
Uuid(n) == [kind |-> "uuid", n |-> n]

MOCK_COMMANDS ==
  << [id |-> DecimalId(1), title |-> "Git Commit with Message",
      template |-> "git commit -m \"{{message}}\"",
      description |-> "Commit staged changes with a descriptive message.",
      category |-> "Git", tags |-> <<"git", "version-control">>,
      createdAt |-> 0],
     [id |-> DecimalId(2), title |-> "Find Large Files",
      template |-> "find {{path}} -type f -size +{{size}}",
      description |->
        "Search for files larger than a specific size in a directory.",
      category |-> "System", tags |-> <<"linux", "find", "storage">>,
      createdAt |-> 0],
     [id |-> DecimalId(3), title |-> "Docker Run detached",
      template |->
        "docker run -d --name {{container_name}} -p {{host_port}}:{{container_port}} {{image}}",
      description |->
        "Run a docker container in the background with port mapping.",
      category |-> "Docker", tags |-> <<"docker", "container", "deploy">>,
      createdAt |-> 0] >>

DEFAULT_FORM ==
  [title |-> "", template |-> "", description |-> "", category |-> "General",
   tags |-> <<>>]

NoCommand == [id |-> [kind |-> "none", n |-> 0]]

NoOp == [op |-> "none", found |-> FALSE]

\* what the user types into the form
FormTitles == {"Renamed"}
FormTemplates == {"ls {{dir}}"}

\* the ids a delete can be asked for
Ids == {DecimalId(n) : n \in 1..3} \cup {Uuid(n) : n \in 1..MaxCreates}

IdsOf(cmds) == {cmds[i].id : i \in DOMAIN cmds}

\* { ...a, ...b }
Spread(a, b) ==
  [k \in DOMAIN a \cup DOMAIN b |-> IF k \in DOMAIN b THEN b[k] ELSE a[k]]

\* the reset effect of the editor, run after a render in which isOpen or
\* initialData changed (deps [isOpen, initialData])
EditorEffect(isOpen, initialData, form) ==
  IF isOpen /\ (isOpen # isEditorOpen \/ initialData # editingCommand)
    THEN IF initialData # NoCommand THEN initialData ELSE DEFAULT_FORM
  ELSE form

\* the reset effect runs (deps [isOpen, initialData])
EffectRuns(isOpen, initialData) ==
  isOpen /\ (isOpen # isEditorOpen \/ initialData # editingCommand)

\* the requests in flight, counted by whether the editor was closed or reset
\* since they were issued
NoPending == [fresh |-> 0, stale |-> 0]

Outdated(p) == [fresh |-> 0, stale |-> p.fresh + p.stale]

\* JSON.stringify of a command: createdAt is a number, tags an array of
\* strings, every other property a string
JsonOfCommand(c) ==
  [json |-> "object",
   members |->
     [k \in DOMAIN c |->
        IF k = "createdAt" THEN [json |-> "number", v |-> c[k]]
        ELSE IF k = "tags"
          THEN [json |-> "array",
                items |-> [i \in DOMAIN c[k] |->
                             [json |-> "string", v |-> c[k][i]]]]
        ELSE [json |-> "string", v |-> c[k]]]]

\* JSON.stringify(commands)
JsonStringify(cmds) ==
  [json |-> "array", items |-> [i \in DOMAIN cmds |-> JsonOfCommand(cmds[i])]]

CommandOfJson(o) ==
  [k \in DOMAIN o.members |->
     IF o.members[k].json = "array"
       THEN [i \in DOMAIN o.members[k].items |-> o.members[k].items[i].v]
     ELSE o.members[k].v]

\* JSON.parse(saved)
JsonParse(text) == [i \in DOMAIN text.items |-> CommandOfJson(text.items[i])]

\* localStorage.getItem of a key that was never set
NoItem == [json |-> "none"]

\* an empty collection is restored as the samples
LoadCommands_nonempty(saved) ==
  IF saved # NoItem /\ JsonParse(saved) # <<>> THEN JsonParse(saved)
  ELSE MOCK_COMMANDS

\* saved ? JSON.parse(saved) : MOCK_COMMANDS
LoadCommands(saved) ==
  IF saved # NoItem THEN JsonParse(saved) ELSE MOCK_COMMANDS

\* ------------------------------------------------------------------------
\* The list of cards: search box and category filter
\* ------------------------------------------------------------------------
\* the characters of the strings the store holds
CharTable ==
  ("" :>
      <<>>)
  @@ ("Renamed" :>
      <<"R", "e", "n", "a", "m", "e", "d">>)
  @@ ("Gen" :>
      <<"G", "e", "n">>)
  @@ ("d" :>
      <<"d">>)
  @@ ("ai" :>
      <<"a", "i">>)
  @@ ("Git Commit with Message" :>
      <<"G", "i", "t", " ", "C", "o", "m", "m", "i", "t", " ", "w",
        "i", "t", "h", " ", "M", "e", "s", "s", "a", "g", "e">>)
  @@ ("Find Large Files" :>
      <<"F", "i", "n", "d", " ", "L", "a", "r", "g", "e", " ", "F",
        "i", "l", "e", "s">>)
  @@ ("Docker Run detached" :>
      <<"D", "o", "c", "k", "e", "r", " ", "R", "u", "n", " ", "d",
        "e", "t", "a", "c", "h", "e", "d">>)
  @@ ("Commit staged changes with a descriptive message." :>
      <<"C", "o", "m", "m", "i", "t", " ", "s", "t", "a", "g", "e",
        "d", " ", "c", "h", "a", "n", "g", "e", "s", " ", "w", "i",
        "t", "h", " ", "a", " ", "d", "e", "s", "c", "r", "i", "p",
        "t", "i", "v", "e", " ", "m", "e", "s", "s", "a", "g", "e", ".">>)
  @@ ("Search for files larger than a specific size in a directory." :>
      <<"S", "e", "a", "r", "c", "h", " ", "f", "o", "r", " ", "f",
        "i", "l", "e", "s", " ", "l", "a", "r", "g", "e", "r", " ",
        "t", "h", "a", "n", " ", "a", " ", "s", "p", "e", "c", "i",
        "f", "i", "c", " ", "s", "i", "z", "e", " ", "i", "n", " ",
        "a", " ", "d", "i", "r", "e", "c", "t", "o", "r", "y", ".">>)
  @@ ("Run a docker container in the background with port mapping." :>
      <<"R", "u", "n", " ", "a", " ", "d", "o", "c", "k", "e", "r",
        " ", "c", "o", "n", "t", "a", "i", "n", "e", "r", " ", "i",
        "n", " ", "t", "h", "e", " ", "b", "a", "c", "k", "g", "r",
        "o", "u", "n", "d", " ", "w", "i", "t", "h", " ", "p", "o",
        "r", "t", " ", "m", "a", "p", "p", "i", "n", "g", ".">>)
  @@ ("git" :>
      <<"g", "i", "t">>)
  @@ ("version-control" :>
      <<"v", "e", "r", "s", "i", "o", "n", "-", "c", "o", "n", "t",
        "r", "o", "l">>)
  @@ ("linux" :>
      <<"l", "i", "n", "u", "x">>)
  @@ ("find" :>
      <<"f", "i", "n", "d">>)
  @@ ("storage" :>
      <<"s", "t", "o", "r", "a", "g", "e">>)
  @@ ("docker" :>
      <<"d", "o", "c", "k", "e", "r">>)
  @@ ("container" :>
      <<"c", "o", "n", "t", "a", "i", "n", "e", "r">>)
  @@ ("deploy" :>
      <<"d", "e", "p", "l", "o", "y">>)

Chars(s) == CharTable[s]

UpperToLower ==
  ("A" :> "a") @@ ("B" :> "b") @@ ("C" :> "c") @@ ("D" :> "d") @@ ("E" :>
  "e") @@ ("F" :> "f") @@ ("G" :> "g") @@ ("H" :> "h") @@ ("I" :> "i") @@
  ("J" :> "j") @@ ("K" :> "k") @@ ("L" :> "l") @@ ("M" :> "m") @@ ("N" :>
  "n") @@ ("O" :> "o") @@ ("P" :> "p") @@ ("Q" :> "q") @@ ("R" :> "r") @@
  ("S" :> "s") @@ ("T" :> "t") @@ ("U" :> "u") @@ ("V" :> "v") @@ ("W" :>
  "w") @@ ("X" :> "x") @@ ("Y" :> "y") @@ ("Z" :> "z")

\* String.prototype.toLowerCase
ToLowerCase(s) ==
  [i \in DOMAIN s |->
     IF s[i] \in DOMAIN UpperToLower THEN UpperToLower[s[i]] ELSE s[i]]

\* s.toLowerCase() as characters, for the strings the store holds
LowerTable == [s \in DOMAIN CharTable |-> ToLowerCase(CharTable[s])]

LowerChars(s) == LowerTable[s]

\* String.prototype.includes; the empty string is found in every string
JsIncludes(hay, needle) ==
  needle = <<>> \/ \E i \in 1..(Len(hay) + 1) : IsPrefixAt(needle, hay, i)

\* the tags are not searched
matchesSearch_noTags(cmd) ==
  \/ JsIncludes(LowerChars(cmd.title), ToLowerCase(searchQuery))
  \/ JsIncludes(LowerChars(cmd.description),
                ToLowerCase(searchQuery))

matchesSearch(cmd) ==
  \/ JsIncludes(LowerChars(cmd.title), ToLowerCase(searchQuery))
  \/ JsIncludes(LowerChars(cmd.description),
                ToLowerCase(searchQuery))
  \/ \E i \in DOMAIN cmd.tags :
       JsIncludes(LowerChars(cmd.tags[i]), ToLowerCase(searchQuery))

matchesCategory(cmd) ==
  selectedCategory = "All" \/ cmd.category = selectedCategory

\* commands.filter(cmd => matchesSearch && matchesCategory)
filteredCommands ==
  SelectSeq(commands, LAMBDA cmd : matchesSearch(cmd) /\ matchesCategory(cmd))

\* ------------------------------------------------------------------------
\* The cards of the list, one per filtered command, keyed by command id
\* ------------------------------------------------------------------------
\* the lexemes of the templates the store holds
TemplateTable ==
  ("" :> <<>>)
  @@ ("git commit -m \"{{message}}\"" :>
        <<"git", SP, "commit", SP, "-m", SP, "\"", LB, LB, "message", RB, RB,
          "\"">>)
  @@ ("find {{path}} -type f -size +{{size}}" :>
        <<"find", SP, LB, LB, "path", RB, RB, SP, "-type", SP, "f", SP,
          "-size", SP, "+", LB, LB, "size", RB, RB>>)
  @@ ("docker run -d --name {{container_name}} -p {{host_port}}:{{container_port}} {{image}}" :>
        <<"docker", SP, "run", SP, "-d", SP, "--name", SP,
          LB, LB, "container_name", RB, RB, SP, "-p", SP,
          LB, LB, "host_port", RB, RB, ":",
          LB, LB, "container_port", RB, RB, SP, LB, LB, "image", RB, RB>>)
  @@ ("ls {{dir}}" :> <<"ls", SP, LB, LB, "dir", RB, RB>>)
  @@ ("gen {{x}}" :> <<"gen", SP, LB, LB, "x", RB, RB>>)

Lexemes(tpl) == TemplateTable[tpl]

\* setTimeout(() => setIsDeleting(false), 3000), in seconds
ConfirmSeconds == 3

\* useState({}), useState(false), useState(false); no timer runs
FreshCard ==
  [variables |-> EmptyObject, copied |-> FALSE, isDeleting |-> FALSE,
   timer |-> 0]

\* filteredCommands.map(cmd => <CommandCard key={cmd.id} ... />): a card
\* whose key stays in the list keeps its state, a key that appears is
\* mounted with fresh state, a key that disappears is unmounted
Remount(cs, visible) ==
  [id \in IdsOf(visible) |-> IF id \in DOMAIN cs THEN cs[id] ELSE FreshCard]

\* the first load, with nothing persisted yet, and the persist effect
StoreInit ==
  /\ commands = LoadCommands(NoItem)
  /\ blob = JsonStringify(commands)
  /\ isEditorOpen = FALSE
  /\ editingCommand = NoCommand
  /\ formData = DEFAULT_FORM
  /\ alerts = 0
  /\ nextUuid = 0
  /\ now = 0
  /\ lastOp = NoOp

openNewCommand ==
  /\ editingCommand' = NoCommand
  /\ isEditorOpen' = TRUE
  /\ formData' = EditorEffect(TRUE, NoCommand, formData)
  /\ aiPrompt' = IF EffectRuns(TRUE, NoCommand) THEN <<>> ELSE aiPrompt
  /\ pending' = IF EffectRuns(TRUE, NoCommand) THEN Outdated(pending)
                ELSE pending
  /\ tagInput' = IF EffectRuns(TRUE, NoCommand) THEN <<>> ELSE tagInput
  /\ UNCHANGED <<commands, alerts, nextUuid, now, lastOp, blob, isGenerating,
                 cards, cardRevision, engineVars, viewVars, dashVars>>

openEditCommand(cmd) ==
  /\ editingCommand' = cmd
  /\ isEditorOpen' = TRUE
  /\ formData' = EditorEffect(TRUE, cmd, formData)
  /\ aiPrompt' = IF EffectRuns(TRUE, cmd) THEN <<>> ELSE aiPrompt
  /\ pending' = IF EffectRuns(TRUE, cmd) THEN Outdated(pending) ELSE pending
  /\ tagInput' = IF EffectRuns(TRUE, cmd) THEN <<>> ELSE tagInput
  /\ UNCHANGED <<commands, alerts, nextUuid, now, lastOp, blob, isGenerating,
                 cards, cardRevision, engineVars, viewVars, dashVars>>

onClose ==
  /\ isEditorOpen
  /\ isEditorOpen' = FALSE
  /\ pending' = Outdated(pending)
  /\ UNCHANGED <<commands, editingCommand, formData, alerts, nextUuid, now,
                 lastOp, blob, isGenerating, aiPrompt, engineVars, viewVars,
                 dashVars, widgetVars>>

\* onChange of a form input: setFormData({ ...formData, [field]: value })
SetField(field, value) ==
  /\ isEditorOpen
  /\ formData[field] # value
  /\ formData' = Spread(formData, [k \in {field} |-> value])
  /\ UNCHANGED <<commands, isEditorOpen, editingCommand, alerts, nextUuid,
                 now, lastOp, blob, engineVars, viewVars, dashVars, aiVars,
                 widgetVars>>

UpdateCommands_touch(prev, data, target) ==
  [i \in DOMAIN prev |->
     IF prev[i].id = target.id
       THEN Spread(data, [id |-> prev[i].id, createdAt |-> now])
     ELSE prev[i]]

\* prev.map(c => c.id === editingCommand.id
\*                  ? { ...data, id: c.id, createdAt: c.createdAt } : c)
UpdateCommands(prev, data, target) ==
  [i \in DOMAIN prev |->
     IF prev[i].id = target.id
       THEN Spread(data, [id |-> prev[i].id, createdAt |-> prev[i].createdAt])
     ELSE prev[i]]

CreateCommands_append(prev, data, id, t) ==
  prev \o <<Spread(data, [id |-> id, createdAt |-> t])>>

\* [newCommand, ...prev]
CreateCommands(prev, data, id, t) ==
  <<Spread(data, [id |-> id, createdAt |-> t])>> \o prev

handleSaveCommand(data, t) ==
  IF editingCommand # NoCommand
    THEN /\ commands' = UpdateCommands(commands, data, editingCommand)
         /\ lastOp' = [op |-> "update",
                        found |-> editingCommand.id \in IdsOf(commands)]
         /\ UNCHANGED <<nextUuid, now>>
  ELSE /\ nextUuid < MaxCreates
       /\ commands' = CreateCommands(commands, data, Uuid(nextUuid + 1), t)
       /\ nextUuid' = nextUuid + 1
       /\ now' = t
       /\ lastOp' = [op |-> "create", found |-> FALSE]

\* the form's submit: the required inputs title and template are filled,
\* then onSave(formData); onClose(); the persist effect follows the render
handleSubmit(t) ==
  /\ isEditorOpen
  /\ formData.title # ""
  /\ formData.template # ""
  /\ handleSaveCommand(formData, t)
  /\ blob' = JsonStringify(commands')
  /\ isEditorOpen' = FALSE
  /\ pending' = Outdated(pending)
  /\ UNCHANGED <<editingCommand, formData, alerts, isGenerating, aiPrompt,
                 cardRevision, tagInput, engineVars, viewVars, dashVars>>
  /\ cards' = Remount(cards, filteredCommands')

\* splice(findIndex(...), 1): an index of -1 removes the last element
DeleteCommands_splice(prev, id) ==
  LET hits == {i \in DOMAIN prev : prev[i].id = id}
      k == IF hits = {} THEN Len(prev)
           ELSE CHOOSE i \in hits : \A j \in hits : i <= j
  IN  [i \in 1..(Len(prev) - (IF prev = <<>> THEN 0 ELSE 1)) |->
         IF i < k THEN prev[i] ELSE prev[i + 1]]

\* prev.filter(c => c.id !== id)
DeleteCommands(prev, id) == SelectSeq(prev, LAMBDA c : c.id # id)

\* the persist effect follows the render
handleDeleteCommand(id) ==
  /\ commands' = DeleteCommands(commands, id)
  /\ blob' = JsonStringify(commands')
  /\ lastOp' = [op |-> "delete", found |-> id \in IdsOf(commands)]
  /\ UNCHANGED <<isEditorOpen, editingCommand, formData, alerts, nextUuid,
                 now, cardRevision, tagInput, engineVars, viewVars, dashVars,
                 aiVars>>
  /\ cards' = Remount(cards, filteredCommands')

\* the page is loaded again: every component starts from its initial state
\* and the collection from the persisted item
Reload ==
  /\ commands' = LoadCommands(blob)
  /\ blob' = JsonStringify(commands')
  /\ isEditorOpen' = FALSE
  /\ editingCommand' = NoCommand
  /\ formData' = DEFAULT_FORM
  /\ searchQuery' = <<>>
  /\ selectedCategory' = "All"
  /\ isGenerating' = FALSE
  /\ aiPrompt' = <<>>
  /\ pending' = NoPending
  /\ lastOp' = [op |-> "reload", found |-> FALSE]
  /\ tagInput' = <<>>
  /\ cards' = Remount(<<>>, filteredCommands')
  /\ UNCHANGED <<alerts, nextUuid, now, cardRevision, engineVars, dashVars>>

\* the user's moves; a template is typed into the blank form only, a title
\* into any form
StoreNext ==
  \/ openNewCommand
  \/ \E i \in DOMAIN commands : openEditCommand(commands[i])
  \/ onClose
  \/ \E v \in FormTitles : SetField("title", v)
  \/ \E v \in FormTemplates : formData.template = "" /\ SetField("template", v)
  \/ \E t \in now..MaxTime : handleSubmit(t)
  \/ \E id \in Ids : handleDeleteCommand(id)
  \/ Reload

\* what the user types into the search box
Queries ==
  { <<>>, <<"g", "i", "t">>, <<"F", "I", "L", "E", "S">>,
    <<"S", "t", "o", "r", "a", "g", "e">>, <<"e">>, <<"z", "z">> }

\* the sidebar entries, and a category no command has
Categories == {"All", "Git", "System", "Docker", "Network"}

\* onChange of the search box
setSearchQuery(q) ==
  /\ searchQuery' = q
  /\ q # searchQuery
  /\ UNCHANGED <<selectedCategory, cardRevision, tagInput, engineVars,
                 storeVars, dashVars, aiVars>>
  /\ cards' = Remount(cards, filteredCommands')

\* a click on a category of the sidebar
setSelectedCategory(cat) ==
  /\ selectedCategory' = cat
  /\ cat # selectedCategory
  /\ UNCHANGED <<searchQuery, cardRevision, tagInput, engineVars, storeVars,
                 dashVars, aiVars>>
  /\ cards' = Remount(cards, filteredCommands')

FilterNext ==
  \/ \E q \in Queries : setSearchQuery(q)
  \/ \E cat \in Categories : setSelectedCategory(cat)
  \/ \E id \in Ids : handleDeleteCommand(id)

\* ------------------------------------------------------------------------
\* The sidebar
\* ------------------------------------------------------------------------
\* ['All', ...uniqueCategories]: the entries of the sidebar, as a set (their
\* order, sorted after 'All', plays no part in what can be picked)
categories ==
  {"All"} \cup {commands[i].category : i \in DOMAIN commands}

\* a click on an entry of the sidebar
ClickCategory(cat) ==
  /\ cat \in categories
  /\ setSelectedCategory(cat)

\* the sidebar over a store in which samples are deleted and the first one
\* is moved to another category
SidebarNext ==
  \/ \E cat \in Categories : ClickCategory(cat)
  \/ \E id \in Ids : handleDeleteCommand(id)
  \/ \E i \in DOMAIN commands :
        commands[i].id = DecimalId(1) /\ openEditCommand(commands[i])
  \/ \E v \in Categories \ {"All"} : SetField("category", v)
  \/ \E t \in now..MaxTime : handleSubmit(t)

\* ------------------------------------------------------------------------
\* The handlers of a card of the list
\* ------------------------------------------------------------------------
\* the command prop of the card keyed by id
CommandOf(id) ==
  commands[CHOOSE i \in DOMAIN commands : commands[i].id = id]

\* the revisions of CommandCard in the source: the first asks for a second
\* click before it deletes, the second deletes on the click
CardRevisions == {1, 2}

\* the first revision: handleDeleteClick; the effect on isDeleting starts
\* the timer when the flag is set
handleDeleteClick(id) ==
  /\ cardRevision = 1
  /\ id \in DOMAIN cards
  /\ IF cards[id].isDeleting
       THEN handleDeleteCommand(id)
     ELSE /\ cards' = [cards EXCEPT ![id].isDeleting = TRUE,
                                    ![id].timer = ConfirmSeconds]
          /\ UNCHANGED <<cardRevision, tagInput, engineVars, storeVars,
                         viewVars, dashVars, aiVars>>

\* the second revision: onClick={() => onDelete(command.id)}
DeleteButtonClick(id) ==
  /\ cardRevision = 2
  /\ id \in DOMAIN cards
  /\ handleDeleteCommand(id)

\* a second passes: a timer that runs out calls setIsDeleting(false)
Tick ==
  /\ \E id \in DOMAIN cards : cards[id].timer > 0
  /\ cards' =
       [id \in DOMAIN cards |->
          IF cards[id].timer = 0 THEN cards[id]
          ELSE IF cards[id].timer = 1
            THEN [cards[id] EXCEPT !.timer = 0, !.isDeleting = FALSE]
          ELSE [cards[id] EXCEPT !.timer = @ - 1]]
  /\ UNCHANGED <<cardRevision, tagInput, engineVars, storeVars, viewVars,
                 dashVars, aiVars>>

\* handleVariableChange of the card keyed by id: one input per placeholder
\* of the card's template
CardVariableChange(id, key, value) ==
  /\ id \in DOMAIN cards
  /\ key \in Range(extractVariables(Lexemes(CommandOf(id).template)))
  /\ cards' = [cards EXCEPT ![id].variables = SetKey(@, key, value)]
  /\ cards' # cards
  /\ UNCHANGED <<cardRevision, tagInput, engineVars, storeVars, viewVars,
                 dashVars, aiVars>>

\* handleCopy of the card keyed by id
CardCopy(id, ok) ==
  /\ id \in DOMAIN cards
  /\ cards' = [cards EXCEPT ![id].copied = (ok \/ @)]
  /\ lastOp' = [op |-> "copy", found |-> ok]
  /\ UNCHANGED <<cardRevision, tagInput, engineVars, commands, isEditorOpen,
                 editingCommand, formData, alerts, nextUuid, now, blob,
                 viewVars, dashVars, aiVars>>

\* setTimeout(() => setCopied(false), 2000) of the card keyed by id
CardCopiedTimeout(id) ==
  /\ id \in DOMAIN cards
  /\ cards[id].copied
  /\ cards' = [cards EXCEPT ![id].copied = FALSE]
  /\ UNCHANGED <<cardRevision, tagInput, engineVars, storeVars, viewVars,
                 dashVars, aiVars>>

\* handleEditClick; the first revision hides the button while confirming
handleEditClick(id) ==
  /\ id \in DOMAIN cards
  /\ ~cards[id].isDeleting
  /\ openEditCommand(CommandOf(id))

\* typing into the inputs of two cards, copying, opening and closing the
\* editor, and searching
BindingsNext ==
  \/ \E id \in {DecimalId(1), DecimalId(2)}, value \in { <<>>, <<"x">> } :
       \E key \in Range(extractVariables(Lexemes(CommandOf(id).template))) :
         CardVariableChange(id, key, value)
  \/ \E id \in DOMAIN cards, ok \in BOOLEAN : CardCopy(id, ok)
  \/ \E id \in DOMAIN cards : CardCopiedTimeout(id)
  \/ \E id \in DOMAIN cards : handleEditClick(id)
  \/ onClose
  \/ \E q \in { <<>>, <<"g", "i", "t">> } : setSearchQuery(q)

\* the delete button of every card, the clock and the sidebar
ConfirmNext ==
  \/ \E id \in DOMAIN cards : handleDeleteClick(id)
  \/ \E id \in DOMAIN cards : DeleteButtonClick(id)
  \/ Tick
  \/ \E cat \in {"All", "Git"} : setSelectedCategory(cat)

\* ------------------------------------------------------------------------
\* The dashboard: two rankings computed from the logs prop
\* ------------------------------------------------------------------------
\* the property keys that are canonical array indices, with their values
ArrayIndices == (<<"1">> :> 1) @@ (<<"2">> :> 2) @@ (<<"3">> :> 3)

\* a property key: its array index (-1 if it is none) and whether a plain
\* object inherits a property of that name
IdKey(id) ==
  [name |-> id, index |-> IF id.kind = "decimal" THEN id.n ELSE -1,
   inherited |-> FALSE]

TextKey(text) ==
  [name |-> text,
   index |-> IF text \in DOMAIN ArrayIndices THEN ArrayIndices[text] ELSE -1,
   inherited |-> text \in DOMAIN ObjectPrototype]

\* {}: the own keys in order of creation, and their values
NewObject == [keys |-> <<>>, at |-> <<>>]

HasOwn(obj, key) == \E i \in DOMAIN obj.keys : obj.keys[i] = key

OwnIndex(obj, key) == CHOOSE i \in DOMAIN obj.keys : obj.keys[i] = key

\* if (!obj[key]) obj[key] = fresh; obj[key].count += 1
\* an inherited property is truthy: no own property is created, and the
\* increment lands on the inherited value
Count(obj, key, fresh) ==
  IF HasOwn(obj, key)
    THEN [obj EXCEPT !.at[OwnIndex(obj, key)].count = @ + 1]
  ELSE IF key.inherited THEN obj
  ELSE [keys |-> Append(obj.keys, key),
        at |-> Append(obj.at, [fresh EXCEPT !.count = 1])]

\* Object.values(obj): array indices in ascending numeric order, then the
\* other keys in order of creation
ObjectValues(obj) ==
  LET idx == {i \in DOMAIN obj.keys : obj.keys[i].index >= 0}
      str == {i \in DOMAIN obj.keys : obj.keys[i].index < 0}
      Before(i, j) ==
        \/ i \in idx /\ j \in str
        \/ i \in idx /\ j \in idx /\ obj.keys[i].index < obj.keys[j].index
        \/ i \in str /\ j \in str /\ i < j
      place(i) == 1 + Cardinality({j \in DOMAIN obj.keys : Before(j, i)})
  IN  [p \in DOMAIN obj.keys |->
         obj.at[CHOOSE i \in DOMAIN obj.keys : place(i) = p]]

\* sort((a, b) => b.count - a.count), a stable sort
RECURSIVE SortByCount(_, _, _)
SortByCount(arr, i, sorted) ==
  IF i > Len(arr) THEN sorted
  ELSE LET k == Cardinality({j \in DOMAIN sorted :
                              sorted[j].count >= arr[i].count})
       IN  SortByCount(arr, i + 1,
                       SubSeq(sorted, 1, k) \o <<arr[i]>>
                         \o SubSeq(sorted, k + 1, Len(sorted)))

TopN == 10

\* slice(0, 10)
Slice(arr) == SubSeq(arr, 1, IF Len(arr) < TopN THEN Len(arr) ELSE TopN)

\* the label of a group is looked up in the command store
TemplateEntry_join(log) ==
  LET hits == {i \in DOMAIN commands : commands[i].id = log.commandId}
  IN  IF hits = {} THEN [count |-> 0, title |-> "", template |-> ""]
      ELSE LET c == commands[CHOOSE i \in hits : TRUE]
           IN  [count |-> 0, title |-> c.title, template |-> c.template]

\* { count: 0, title: log.title, template: log.template }
TemplateEntry(log) ==
  [count |-> 0, title |-> log.title, template |-> log.template]

\* { count: 0, text: log.filledCommand, originalTitle: log.title }
InstanceEntry(log) ==
  [count |-> 0, text |-> log.filledCommand, originalTitle |-> log.title]

\* logs.forEach(...)
RECURSIVE Aggregate(_, _, _)
Aggregate(ls, i, acc) ==
  IF i > Len(ls) THEN acc
  ELSE Aggregate(ls, i + 1,
         [templateCounts |->
            Count(acc.templateCounts, IdKey(ls[i].commandId),
                  TemplateEntry(ls[i])),
          instanceCounts |->
            Count(acc.instanceCounts, TextKey(ls[i].filledCommand),
                  InstanceEntry(ls[i]))])

\* the stats memo
Stats(ls) ==
  LET acc == Aggregate(ls, 1, [templateCounts |-> NewObject,
                               instanceCounts |-> NewObject])
  IN  [mounted |-> TRUE,
       topTemplates |->
         Slice(SortByCount(ObjectValues(acc.templateCounts), 1, <<>>)),
       topInstances |->
         Slice(SortByCount(ObjectValues(acc.instanceCounts), 1, <<>>))]

\* the dashboard before it is shown
NoStats == [mounted |-> FALSE, topTemplates |-> <<>>, topInstances |-> <<>>]

\* the fields of a CopyLog the dashboard reads, for a copy of cmd that
\* resolved to filled
CopyLogOf(cmd, filled) ==
  [commandId |-> cmd.id, title |-> cmd.title, template |-> cmd.template,
   filledCommand |-> filled]

\* a command created by the user, whose whole text is one placeholder
RawCommand ==
  [id |-> Uuid(1), title |-> "Raw", template |-> "{{cmd}}",
   description |-> "", category |-> "General", tags |-> <<>>,
   createdAt |-> 0]

\* copies of two samples, and of the raw command filled in four ways
LogPool ==
  { CopyLogOf(MOCK_COMMANDS[2],
              <<"find", SP, "/var", SP, "-type", SP, "f", SP, "-size", SP,
                "+1G">>),
    CopyLogOf(MOCK_COMMANDS[1],
              <<"git", SP, "commit", SP, "-m", SP, "\"fix\"">>),
    CopyLogOf(RawCommand, <<"2">>),
    CopyLogOf(RawCommand, <<"1">>),
    CopyLogOf(RawCommand, <<"constructor">>),
    CopyLogOf(RawCommand,
              <<"git", SP, "commit", SP, "-m", SP, "\"fix\"">>) }

LogLists == UNION { [1..n -> LogPool] : n \in 0..MaxLogs }

DashInit ==
  /\ logs \in LogLists
  /\ stats = NoStats
  /\ copied = FALSE

\* the dashboard is shown: the memo is computed from the logs prop
RenderDashboard ==
  /\ stats' = Stats(logs)
  /\ stats' # stats
  /\ UNCHANGED <<logs, copied, engineVars, storeVars, viewVars, aiVars,
                 widgetVars>>

\* the dashboard, over a store in which the first sample is renamed or
\* deleted
DashNext ==
  \/ RenderDashboard
  \/ \E i \in DOMAIN commands :
        commands[i].id = DecimalId(1) /\ openEditCommand(commands[i])
  \/ \E v \in FormTitles : SetField("title", v)
  \/ \E t \in now..MaxTime : handleSubmit(t)
  \/ handleDeleteCommand(DecimalId(1))

\* ------------------------------------------------------------------------
\* The AI section of the editor
\* ------------------------------------------------------------------------
\* what the user types into the prompt input
AiPrompts == { <<>>, <<SP>>, <<"compress">> }

\* response texts: none, prose, an object of the asked shape, an object
\* with a title only
GenText ==
  "{\"title\":\"Gen\",\"template\":\"gen {{x}}\",\"description\":\"d\",\"category\":\"Git\",\"tags\":[\"ai\"]}"

PartialText == "{\"title\":\"Gen\"}"

ResponseTexts == {"", "Sorry, I cannot help with that.", GenText, PartialText}

\* the values of the texts that JSON.parse accepts
JsonValues ==
  (GenText :> [title |-> "Gen", template |-> "gen {{x}}",
               description |-> "d", category |-> "Git", tags |-> <<"ai">>])
  @@ (PartialText :> [title |-> "Gen"])

\* what a call meets: the API key of the build, the network, the text of
\* the response
Calls == [apiKey : BOOLEAN, network : {"ok", "error"}, text : ResponseTexts]

Thrown == [ok |-> FALSE]

Returned(v) == [ok |-> TRUE, value |-> v]

\* generateCommandFromDescription: the promise it returns is rejected or
\* fulfilled with JSON.parse(response.text)
generateCommandFromDescription(call) ==
  IF ~call.apiKey THEN Thrown
  ELSE IF call.network = "error" THEN Thrown
  ELSE IF call.text = "" THEN Thrown
  ELSE IF call.text \notin DOMAIN JsonValues THEN Thrown
  ELSE Returned(JsonValues[call.text])

\* onChange of the prompt input, shown for a new command only
setAiPrompt(v) ==
  /\ isEditorOpen
  /\ editingCommand = NoCommand
  /\ v # aiPrompt
  /\ aiPrompt' = v
  /\ UNCHANGED <<isGenerating, pending, engineVars, storeVars, viewVars,
                 dashVars, widgetVars>>

\* handleAiGenerate up to its await: an empty prompt returns at once
handleAiGenerate ==
  /\ Trim(aiPrompt) # <<>>
  /\ pending.fresh + pending.stale < MaxPending
  /\ isGenerating' = TRUE
  /\ pending' = [pending EXCEPT !.fresh = @ + 1]
  /\ lastOp' = [op |-> "generate", found |-> FALSE]
  /\ UNCHANGED <<aiPrompt, commands, isEditorOpen, editingCommand, formData,
                 alerts, nextUuid, now, blob, engineVars, viewVars, dashVars,
                 widgetVars>>

\* a click on Generate: disabled={isGenerating || !aiPrompt.trim()}
ClickGenerate ==
  /\ isEditorOpen
  /\ editingCommand = NoCommand
  /\ ~(isGenerating \/ Trim(aiPrompt) = <<>>)
  /\ handleAiGenerate

\* Enter in the prompt input: e.key === 'Enter' && handleAiGenerate()
PressEnter ==
  /\ isEditorOpen
  /\ editingCommand = NoCommand
  /\ handleAiGenerate

\* a failure resets the form
FormAfter_reset(result, form) ==
  IF result.ok THEN result.value ELSE DEFAULT_FORM

\* try { setFormData(generated) } catch { alert(...) }
FormAfter(result, form) == IF result.ok THEN result.value ELSE form

\* handleAiGenerate after its await, for a call issued in this session of
\* the editor (fresh) or before the last close or reset (stale)
Settle(age, call) ==
  LET result == generateCommandFromDescription(call)
  IN  /\ pending[age] > 0
      /\ result.ok \/ alerts < MaxAlerts
      /\ pending' = [pending EXCEPT ![age] = @ - 1]
      /\ formData' = FormAfter(result, formData)
      /\ alerts' = IF result.ok THEN alerts ELSE alerts + 1
      /\ isGenerating' = FALSE
      /\ lastOp' = [op |-> IF result.ok THEN "aiSuccess" ELSE "aiFailure",
                    found |-> FALSE]
      /\ UNCHANGED <<aiPrompt, commands, isEditorOpen, editingCommand,
                     nextUuid, now, blob, engineVars, viewVars, dashVars,
                     widgetVars>>

\* the editor with its AI section, opened from the page behind it for a new
\* command or for the first sample
AiNext ==
  \/ ~isEditorOpen /\ openNewCommand
  \/ \E i \in DOMAIN commands :
        /\ ~isEditorOpen
        /\ commands[i].id = DecimalId(1)
        /\ openEditCommand(commands[i])
  \/ onClose
  \/ \E v \in FormTitles : SetField("title", v)
  \/ \E v \in AiPrompts : setAiPrompt(v)
  \/ ClickGenerate
  \/ PressEnter
  \/ \E age \in {"fresh", "stale"}, call \in Calls : Settle(age, call)

\* ------------------------------------------------------------------------
\* The tag list of the editor
\* ------------------------------------------------------------------------
\* the tags met in the editor, with their lexemes
TagTable ==
  ("" :> <<>>) @@ ("a" :> <<"a">>) @@ (" a" :> <<SP, "a">>)
  @@ ("b" :> <<"b">>) @@ ("c" :> <<"c">>)

\* the tag whose text the lexemes spell
TagText(lexemes) == CHOOSE t \in DOMAIN TagTable : TagTable[t] = lexemes

\* onChange of the tag input
setTagInput(v) ==
  /\ isEditorOpen
  /\ v # tagInput
  /\ tagInput' = v
  /\ UNCHANGED <<cards, cardRevision, engineVars, storeVars, viewVars,
                 dashVars, aiVars>>

\* the input is pushed whether or not the list holds it
AddTag_push(tags, input) == Append(tags, TagText(Trim(input)))

\* if (!formData.tags.includes(tagInput.trim()))
\*   setFormData(prev => ({ ...prev, tags: [...prev.tags, tagInput.trim()] }))
AddTag(tags, input) ==
  IF TagText(Trim(input)) \in Range(tags) THEN tags
  ELSE Append(tags, TagText(Trim(input)))

\* Enter in the tag input: nothing happens for a blank input, else the tag
\* is added and the input cleared
handleAddTag ==
  /\ isEditorOpen
  /\ Trim(tagInput) # <<>>
  /\ formData' = Spread(formData, [tags |-> AddTag(formData.tags, tagInput)])
  /\ tagInput' = <<>>
  /\ UNCHANGED <<commands, isEditorOpen, editingCommand, alerts, nextUuid,
                 now, lastOp, blob, cards, cardRevision, engineVars, viewVars,
                 dashVars, aiVars>>

\* the x button of a tag: prev.tags.filter(t => t !== tagToRemove)
removeTag(tagToRemove) ==
  /\ isEditorOpen
  /\ tagToRemove \in Range(formData.tags)
  /\ formData' =
       Spread(formData,
              [tags |-> SelectSeq(formData.tags,
                                  LAMBDA t : t # tagToRemove)])
  /\ UNCHANGED <<commands, isEditorOpen, editingCommand, alerts, nextUuid,
                 now, lastOp, blob, widgetVars, engineVars, viewVars,
                 dashVars, aiVars>>

TagsNext ==
  \/ \E v \in { <<>>, <<SP>>, <<"a">>, <<SP, "a", SP>>, <<"b">>, <<"c">> } : setTagInput(v)
  \/ handleAddTag
  \/ \E tag \in DOMAIN TagTable : removeTag(tag)

\* the editor open for a new command, its form set from an AI response
\* whose tag list is one of: none, a tag, a tag with a leading space, an
\* empty tag
TagsInit ==
  /\ commands = LoadCommands(NoItem)
  /\ blob = JsonStringify(commands)
  /\ isEditorOpen = TRUE
  /\ editingCommand = NoCommand
  /\ formData \in { Spread(JsonValues[GenText], [tags |-> ts]) :
                       ts \in { <<>>, <<"a">>, <<" a">>, <<"">> } }
  /\ alerts = 0
  /\ nextUuid = 0
  /\ now = 0
  /\ lastOp = [op |-> "aiSuccess", found |-> FALSE]

\* the fields of CommandFormData
FormFields == {"title", "template", "description", "category", "tags"}

\* sessions of the editor, one after the other: the AI section, the tag
\* input and the submit (a form that lost its fields cannot be rendered,
\* so it is not submitted)
SessionsNext ==
  \/ AiNext
  \/ \E v \in { <<>>, <<"a">> } : setTagInput(v)
  \/ \E t \in now..MaxTime :
        FormFields \subseteq DOMAIN formData /\ handleSubmit(t)

\* ------------------------------------------------------------------------
\* Specifications
\* ------------------------------------------------------------------------
EngineIdle ==
  /\ template = <<>>
  /\ values = EmptyObject
  /\ placeholders = <<>>
  /\ finalCommand = <<>>
  /\ rendered = FALSE

\* nothing typed into the search box, no category picked
ViewInit ==
  /\ searchQuery = <<>>
  /\ selectedCategory = "All"

\* no copy made, a dashboard without logs
DashIdle ==
  /\ logs = <<>>
  /\ stats = NoStats
  /\ copied = FALSE

\* the AI section of the editor at rest
AiInit ==
  /\ isGenerating = FALSE
  /\ aiPrompt = <<>>
  /\ pending = NoPending

\* the first render of the list by the revision with the confirm step, and
\* an empty tag input
WidgetInit ==
  /\ cards = Remount(<<>>, filteredCommands)
  /\ cardRevision = 1
  /\ tagInput = <<>>

\* the template engine on its own, over a store that stays as loaded
SpecEngineInit ==
  EngineInit /\ StoreInit /\ ViewInit /\ DashIdle /\ AiInit /\ WidgetInit

SpecEngine == SpecEngineInit /\ [][EngineNext]_vars

\* a card with its copy button
SpecCard == SpecEngineInit /\ [][CardNext]_vars

\* the store and the editor
Init ==
  EngineIdle /\ StoreInit /\ ViewInit /\ DashIdle /\ AiInit /\ WidgetInit

Next == StoreNext

Spec == Init /\ [][Next]_vars

\* the editor and its AI section
SpecAi == Init /\ [][AiNext]_vars

\* the dashboard and the store
SpecDashboardInit ==
  EngineIdle /\ StoreInit /\ ViewInit /\ DashInit /\ AiInit /\ WidgetInit

SpecDashboard == SpecDashboardInit /\ [][DashNext]_vars

\* the list of cards under the search box and the category filter
SpecFilter == Init /\ [][FilterNext]_vars

\* the cards with their delete buttons, built from either revision
SpecConfirmInit ==
  /\ EngineIdle /\ StoreInit /\ ViewInit /\ DashIdle /\ AiInit
  /\ cards = Remount(<<>>, filteredCommands)
  /\ cardRevision \in CardRevisions
  /\ tagInput = <<>>

SpecConfirm == SpecConfirmInit /\ [][ConfirmNext]_vars

\* sessions of the editor
SpecSessions == Init /\ [][SessionsNext]_vars

\* the tag list of the open editor
SpecTagsInit ==
  EngineIdle /\ TagsInit /\ ViewInit /\ DashIdle /\ AiInit /\ WidgetInit

SpecTags == SpecTagsInit /\ [][TagsNext]_vars

\* the sidebar and the store
SpecSidebar == Init /\ [][SidebarNext]_vars

\* a card over templates with line breaks and braces inside the markers
SpecDisplayInit ==
  DisplayInit /\ StoreInit /\ ViewInit /\ DashIdle /\ AiInit /\ WidgetInit

SpecDisplay == SpecDisplayInit /\ [][EngineNext]_vars

\* the cards with their variable inputs
SpecBindings == Init /\ [][BindingsNext]_vars

\* ------------------------------------------------------------------------
\* Placeholder occurrences, stated from the placeholder syntax: "{{", one or
\* more characters that are not "}", "}}"
\* ------------------------------------------------------------------------
OpenAt(t) == {s \in 1..(Len(t) - 1) : t[s] = LB /\ t[s + 1] = LB}

\* the indexes of the second "}" of each "}}"
CloseAt(t) == {e \in 2..Len(t) : t[e - 1] = RB /\ t[e] = RB}

Markers(t) ==
  {c \in OpenAt(t) \X CloseAt(t) :
     /\ c[2] - c[1] >= 4
     /\ \A k \in (c[1] + 2)..(c[2] - 2) : t[k] # RB}

\* the occurrences of a left-to-right reading: a marker that does not start
\* inside a marker that starts earlier
Occurrences(t) ==
  LET ms == Markers(t)
  IN  {c \in ms : ~\E d \in ms : d[1] < c[1] /\ c[1] <= d[2]}

OccText(t, c) == SubSeq(t, c[1], c[2])

OccName(t, c) == Trim(SubSeq(t, c[1] + 2, c[2] - 2))

OccNames(t) == {OccName(t, c) : c \in Occurrences(t)}

Bound(B, n) == n \in DOMAIN B /\ B[n] # <<>>

\* t with the occurrence c replaced by out(c), everything else kept
RECURSIVE SubstitutedFrom(_, _, _, _)
SubstitutedFrom(t, occ, out(_), i) ==
  IF i > Len(t) THEN <<>>
  ELSE IF \E c \in occ : c[1] = i
    THEN LET c == CHOOSE d \in occ : d[1] = i
         IN  out(c) \o SubstitutedFrom(t, occ, out, c[2] + 1)
  ELSE <<t[i]>> \o SubstitutedFrom(t, occ, out, i + 1)

Substituted(t, out(_)) == SubstitutedFrom(t, Occurrences(t), out, 1)

BraceFree(v) == \A i \in DOMAIN v : v[i] \notin {LB, RB}

\* the runs of literal text of t: before the first occurrence, between two
\* occurrences, after the last one
RECURSIVE LiteralRunsFrom(_, _, _)
LiteralRunsFrom(t, occ, i) ==
  LET starts == {c[1] : c \in {d \in occ : d[1] >= i}}
  IN  IF starts = {} THEN <<SubSeq(t, i, Len(t))>>
      ELSE LET s == CHOOSE x \in starts : \A y \in starts : x <= y
               c == CHOOSE d \in occ : d[1] = s
           IN  <<SubSeq(t, i, s - 1)>> \o LiteralRunsFrom(t, occ, c[2] + 1)

\* r is runs[1] x1 runs[2] x2 ... runs[n] for some strings x1, x2, ...
RECURSIVE RunsIn(_, _, _)
RunsIn(runs, r, i) ==
  IF Len(runs) = 1
    THEN LET p == Len(r) - Len(runs[1]) + 1
         IN  p >= i /\ IsPrefixAt(runs[1], r, p)
  ELSE \E p \in i..(Len(r) + 1) :
         /\ IsPrefixAt(Head(runs), r, p)
         /\ RunsIn(Tail(runs), r, p + Len(Head(runs)))

LiteralTextKept(t, r) ==
  LET runs == LiteralRunsFrom(t, Occurrences(t), 1)
  IN  /\ IsPrefixAt(runs[1], r, 1)
      /\ RunsIn(runs, r, 1)

\* ------------------------------------------------------------------------
\* C1: replaceVariables(T, B) replaces each placeholder occurrence by
\* B[trim(name)] when that value is present and non-empty, and otherwise
\* leaves the matched marker text exactly as it appeared in T.
\* ------------------------------------------------------------------------
C1_Out(c) ==
  IF Bound(values, OccName(template, c)) THEN values[OccName(template, c)]
  ELSE OccText(template, c)

C1_ReplaceByBinding ==
  rendered => finalCommand = Substituted(template, C1_Out)

\* ------------------------------------------------------------------------
\* C2: extractVariables(T) returns each distinct trimmed placeholder name
\* exactly once, in the order of first appearance; N distinct names give N
\* entries; names differing only by whitespace inside the braces are the
\* same name, names differing by letter case are different.
\* ------------------------------------------------------------------------
FirstAppearance(t, occ, n) ==
  LET starts == {c[1] : c \in {d \in occ : OccName(t, d) = n}}
  IN  CHOOSE x \in starts : \A y \in starts : x <= y

C2_ExtractDistinctInOrder ==
  rendered =>
    LET occ == Occurrences(template)
        names == {OccName(template, c) : c \in occ}
    IN  /\ Range(placeholders) = names
        /\ Len(placeholders) = Cardinality(names)
        /\ \A i, j \in DOMAIN placeholders :
             i < j => FirstAppearance(template, occ, placeholders[i])
                        < FirstAppearance(template, occ, placeholders[j])

C2_Witness ==
  /\ rendered
  /\ template = Mark(<<"constructor">>) \o Mark(<<SP, "Constructor", SP>>)
                  \o Mark(<<"Constructor">>)
  /\ placeholders = << <<"constructor">>, <<"Constructor">> >>

\* ------------------------------------------------------------------------
\* C3: replaceVariables(T, {}) returns T unchanged; a template without
\* placeholders is returned unchanged for any binding map.
\* ------------------------------------------------------------------------
C3_RoundTrip ==
  rendered =>
    /\ values = EmptyObject => finalCommand = template
    /\ Occurrences(template) = {} => finalCommand = template

\* ------------------------------------------------------------------------
\* C4: replaceVariables(T, B) contains no remaining placeholder occurrence
\* of a name that is a key of B with a non-empty value, and every character
\* of T outside the placeholder markers is in the result, unchanged and in
\* the same order.
\* ------------------------------------------------------------------------
NoBoundNameLeft(r, B) ==
  \A n \in OccNames(r) : ~Bound(B, n)

CallbackOut(c) == Replacer(values, SubSeq(template, c[1] + 2, c[2] - 2))

\* by how much the result is longer than the template, over the
\* occurrences S
RECURSIVE Growth(_)
Growth(S) ==
  IF S = {} THEN 0
  ELSE LET c == CHOOSE d \in S : TRUE
       IN  Len(CallbackOut(c)) - (c[2] - c[1] + 1) + Growth(S \ {c})

\* where the output for index i of the template starts in the result, i
\* being outside the occurrences occ or the first index of one
OutStart(occ, i) == i + Growth({c \in occ : c[2] < i})

C5_NoRecursion ==
  rendered =>
    LET occ == Occurrences(template)
    IN  /\ Len(finalCommand) = OutStart(occ, Len(template) + 1) - 1
        /\ \A c \in occ :
             Bound(values, OccName(template, c)) =>
               LET v == values[OccName(template, c)]
                   o == OutStart(occ, c[1])
               IN  SubSeq(finalCommand, o, o + Len(v) - 1) = v

C5_Witness ==
  /\ rendered
  /\ template = Mark(<<"constructor">>) \o Mark(<<"Constructor">>)
  /\ values = (<<"constructor">> :> Mark(<<"Constructor">>))
                @@ (<<"Constructor">> :> <<"x">>)
  /\ finalCommand = Mark(<<"Constructor">>) \o <<"x">>

\* ------------------------------------------------------------------------
\* C6: malformed markers are never matched: for an unmatched "{{" with no
\* closing "}}" and for the empty marker "{{}}", extractVariables returns
\* no name for that marker and replaceVariables leaves that text literally
\* in place for every binding map.
\* ------------------------------------------------------------------------
Unclosed(t, s) == s \in OpenAt(t) /\ ~\E e \in CloseAt(t) : e - 1 >= s + 2

EmptyMarker(t, s) == IsPrefixAt(Open \o Close, t, s)

\* the "{{}}" at s ends a longer marker that starts before it
TailOfLonger(t, s) == \E c \in Markers(t) : c[1] < s /\ c[2] = s + 3

\* the text template[s..f] yields no name and is in the result, in its place
LeftLiteral(s, f) ==
  LET matches == Scan(template, 1)
      o == OutStart(Occurrences(template), s)
  IN  /\ \A i \in DOMAIN matches : matches[i].e < s \/ matches[i].s > f
      /\ (\A p \in OpenAt(template) :
            Unclosed(template, p) \/ EmptyMarker(template, p))
           => placeholders = <<>>
      /\ o + f - s <= Len(finalCommand)
      /\ SubSeq(finalCommand, o, o + f - s) = SubSeq(template, s, f)

C6_MalformedLiteral ==
  rendered =>
    \A s \in OpenAt(template) :
      /\ Unclosed(template, s) => LeftLiteral(s, s + 1)
      /\ EmptyMarker(template, s) => LeftLiteral(s, s + 3)

\* C6 as amended: the same, for an empty marker "{{}}" that is not the end
\* of a longer marker ("{{", characters other than "}", then "{{}}").
C6_MalformedLiteralNotTail ==
  rendered =>
    \A s \in OpenAt(template) :
      /\ Unclosed(template, s) => LeftLiteral(s, s + 1)
      /\ (EmptyMarker(template, s) /\ ~TailOfLonger(template, s))
           => LeftLiteral(s, s + 3)

C6_Witness ==
  /\ rendered
  /\ template = Open \o <<"Constructor">> \o Close \o Open \o Close
  /\ values = (<<"Constructor">> :> <<"x">>)
  /\ finalCommand = <<"x">> \o Open \o Close

\* ------------------------------------------------------------------------
\* Steps of the store, for the claims below
\* ------------------------------------------------------------------------
SubmitStep == \E t \in now..MaxTime : handleSubmit(t)

CreateStep == editingCommand = NoCommand /\ SubmitStep

UpdateStep == editingCommand # NoCommand /\ SubmitStep

DistinctIds(cmds) ==
  \A i, j \in DOMAIN cmds : cmds[i].id = cmds[j].id => i = j


IdSeq(cmds) == [i \in DOMAIN cmds |-> cmds[i].id]

\* ------------------------------------------------------------------------
\* C7: all commands of the store have pairwise distinct ids, and the id and
\* createdAt of a command never change after creation: an update replaces
\* title, template, description, category and tags only and keeps the
\* stored id and createdAt, whatever the submitted form data contains.
\* ------------------------------------------------------------------------
C7_IdAndCreatedAtStable ==
  [][ /\ DistinctIds(commands)
      /\ DistinctIds(commands')
      /\ \A i \in DOMAIN commands, j \in DOMAIN commands' :
           commands[i].id = commands'[j].id
             => commands'[j].createdAt = commands[i].createdAt
      /\ UpdateStep =>
           /\ IdSeq(commands') = IdSeq(commands)
           /\ \A i \in DOMAIN commands :
                IF commands[i].id = editingCommand.id
                  THEN /\ \A f \in FormFields : commands'[i][f] = formData[f]
                       /\ DOMAIN commands'[i] = FormFields \cup {"id", "createdAt"}
                ELSE commands'[i] = commands[i] ]_vars

C7_Witness ==
  /\ lastOp = [op |-> "update", found |-> TRUE]
  /\ now = 1
  /\ \E i \in DOMAIN commands :
       /\ commands[i].id = DecimalId(1)
       /\ commands[i].title = "Renamed"
       /\ commands[i].createdAt = 0

\* ------------------------------------------------------------------------
\* C8: a create places the new command at the front of the collection,
\* before every existing command; an update or a delete leaves the relative
\* order of all other commands unchanged, an updated command keeping its
\* position.
\* ------------------------------------------------------------------------
Position(cmds, id) == CHOOSE i \in DOMAIN cmds : cmds[i].id = id

C8_StoreOrdering ==
  [][ /\ CreateStep =>
           /\ Len(commands') = Len(commands) + 1
           /\ commands'[1].id \notin IdsOf(commands)
           /\ \A i \in DOMAIN commands : commands'[i + 1] = commands[i]
      /\ UpdateStep => IdSeq(commands') = IdSeq(commands)
      /\ \A id \in Ids : handleDeleteCommand(id) =>
           /\ IdsOf(commands') = IdsOf(commands) \ {id}
           /\ \A i, j \in DOMAIN commands' :
                i < j => Position(commands, commands'[i].id)
                           < Position(commands, commands'[j].id)
           /\ \A i \in DOMAIN commands' :
                commands'[i] = commands[Position(commands, commands'[i].id)]
    ]_vars

C8_Witness ==
  /\ lastOp.op = "create"
  /\ Len(commands) = 4
  /\ commands[1].id = Uuid(1)
  /\ Tail(commands) = MOCK_COMMANDS

\* ------------------------------------------------------------------------
\* C9: an update whose target id is not in the collection reports NotFound
\* to the user and leaves the collection unchanged.
\* ------------------------------------------------------------------------
C9_UpdateMissingReported ==
  [][ (UpdateStep /\ editingCommand.id \notin IdsOf(commands)) =>
        /\ alerts' > alerts
        /\ commands' = commands ]_vars

\* ------------------------------------------------------------------------
\* C10: a delete whose id is not in the collection is a silent no-op: the
\* collection keeps the same commands in the same order and no error is
\* raised; delete is idempotent.
\* ------------------------------------------------------------------------
C10_DeleteMissingNoOp ==
  [][ \A id \in Ids : handleDeleteCommand(id) =>
        /\ id \notin IdsOf(commands) =>
             /\ commands' = commands
             /\ alerts' = alerts
        /\ id \notin IdsOf(commands')
        /\ DeleteCommands(commands', id) = commands' ]_vars

C10_Witness ==
  /\ lastOp = [op |-> "delete", found |-> FALSE]
  /\ commands = MOCK_COMMANDS

\* ------------------------------------------------------------------------
\* C11: after every completed create, update or delete the persisted blob
\* is the serialization of the whole collection, so a reload restores
\* exactly the collection of the last completed mutation, the empty one
\* included; the samples are loaded only when nothing was ever persisted.
\* ------------------------------------------------------------------------
C11_PersistedIsCollection ==
  [][ /\ blob' = JsonStringify(commands')
      /\ Reload => /\ commands' = commands
                   /\ blob # NoItem
                   /\ (commands = <<>> => commands' # MOCK_COMMANDS) ]_vars

C11_Witness ==
  /\ lastOp.op = "reload"
  /\ commands = <<>>
  /\ blob = [json |-> "array", items |-> <<>>]

\* ------------------------------------------------------------------------
\* C12: a command is in the filtered list iff (selectedCategory is "All" or
\* is the command's category) and (the query is empty or the lower-cased
\* query is a substring of the lower-cased title, description or of at
\* least one tag); the filtered list keeps the store order.
\* ------------------------------------------------------------------------
SubstringOf(hay, needle) ==
  \E a, b \in 0..Len(hay) : a <= b /\ SubSeq(hay, a + 1, b) = needle

Matches(c) ==
  /\ selectedCategory = "All" \/ selectedCategory = c.category
  /\ \/ searchQuery = <<>>
     \/ \E text \in {Chars(c.title), Chars(c.description)}
                    \cup {Chars(c.tags[i]) : i \in DOMAIN c.tags} :
          SubstringOf(ToLowerCase(text), ToLowerCase(searchQuery))

C12_Filtering ==
  LET f == filteredCommands
  IN  /\ \A i \in DOMAIN commands :
           (\E j \in DOMAIN f : f[j] = commands[i]) <=> Matches(commands[i])
      /\ \A j \in DOMAIN f : f[j].id \in IdsOf(commands)
                               /\ f[j] = commands[Position(commands, f[j].id)]
      /\ \A j, k \in DOMAIN f :
           j < k => Position(commands, f[j].id) < Position(commands, f[k].id)

C12_Witness ==
  /\ searchQuery = <<"S", "t", "o", "r", "a", "g", "e">>
  /\ selectedCategory = "System"
  /\ commands = MOCK_COMMANDS
  /\ filteredCommands = <<MOCK_COMMANDS[2]>>

\* ------------------------------------------------------------------------
\* Groups of a log list by one of its fields
\* ------------------------------------------------------------------------
KeysOf(ls, f) == {ls[i][f] : i \in DOMAIN ls}

CountOf(ls, f, key) == Cardinality({i \in DOMAIN ls : ls[i][f] = key})

FirstAt(ls, f, key) ==
  CHOOSE i \in DOMAIN ls :
    /\ ls[i][f] = key
    /\ \A j \in DOMAIN ls : ls[j][f] = key => i <= j

\* the place of a group: after the groups with more logs, and after the
\* groups with as many logs that are met earlier
RankOf(ls, f, key) ==
  1 + Cardinality({k \in KeysOf(ls, f) :
        \/ CountOf(ls, f, k) > CountOf(ls, f, key)
        \/ /\ CountOf(ls, f, k) = CountOf(ls, f, key)
           /\ FirstAt(ls, f, k) < FirstAt(ls, f, key)})

First10(n) == IF n < 10 THEN n ELSE 10

\* ------------------------------------------------------------------------
\* C13: topInstances has one entry per distinct filledCommand, with the
\* number of logs carrying that string as count, in descending order of
\* count, entries of equal count in the order in which their filledCommand
\* is first met in the log list, truncated to the first 10.
\* ------------------------------------------------------------------------
C13_TopInstances ==
  stats.mounted =>
    /\ Len(stats.topInstances)
         = First10(Cardinality(KeysOf(logs, "filledCommand")))
    /\ \A key \in KeysOf(logs, "filledCommand") :
         LET r == RankOf(logs, "filledCommand", key)
         IN  r <= 10 =>
               /\ stats.topInstances[r].text = key
               /\ stats.topInstances[r].count
                    = CountOf(logs, "filledCommand", key)

\* ------------------------------------------------------------------------
\* C14: topTemplates has one entry per distinct commandId, with the number
\* of logs of that commandId as count, in descending order of count,
\* entries of equal count in the order in which their commandId is first
\* met in the log list, truncated to the first 10, for every form of id.
\* ------------------------------------------------------------------------
C14_TopTemplates ==
  stats.mounted =>
    /\ Len(stats.topTemplates)
         = First10(Cardinality(KeysOf(logs, "commandId")))
    /\ \A key \in KeysOf(logs, "commandId") :
         LET r == RankOf(logs, "commandId", key)
             first == logs[FirstAt(logs, "commandId", key)]
         IN  r <= 10 =>
               stats.topTemplates[r]
                 = [count |-> CountOf(logs, "commandId", key),
                    title |-> first.title, template |-> first.template]

\* ------------------------------------------------------------------------
\* C15: the title and template shown for a dashboard group are those of
\* the CopyLog records of the group, never those of the command store:
\* editing or deleting a command changes neither the logs nor the labels
\* and counts of either ranking.
\* ------------------------------------------------------------------------
LabelsFromLogs(st, ls) ==
  /\ \A j \in DOMAIN st.topTemplates :
       \E id \in KeysOf(ls, "commandId") :
         LET first == ls[FirstAt(ls, "commandId", id)]
         IN  st.topTemplates[j]
               = [count |-> CountOf(ls, "commandId", id),
                  title |-> first.title, template |-> first.template]
  /\ \A j \in DOMAIN st.topInstances :
       LET e == st.topInstances[j]
       IN  /\ e.text \in KeysOf(ls, "filledCommand")
           /\ e.originalTitle
                = ls[FirstAt(ls, "filledCommand", e.text)].title
           /\ e.count = CountOf(ls, "filledCommand", e.text)

C15_LabelsFrozen ==
  [][ /\ logs' = logs
      /\ stats'.mounted => LabelsFromLogs(stats', logs')
      /\ stats.mounted => stats' = stats ]_vars

C15_Witness ==
  /\ stats.mounted
  /\ lastOp.op \in {"update", "delete"}
  /\ lastOp.found
  /\ \E j \in DOMAIN stats.topTemplates :
       stats.topTemplates[j].title = MOCK_COMMANDS[1].title
  /\ \A i \in DOMAIN commands : commands[i].title # MOCK_COMMANDS[1].title

\* ------------------------------------------------------------------------
\* C16: every successful clipboard copy from a card appends exactly one
\* CopyLog to the usage log, with commandId, title and template of the
\* card's command and filledCommand = replaceVariables(template, current
\* bindings), unresolved markers included; the log list is append-only.
\* ------------------------------------------------------------------------
CardCommand == [RawCommand EXCEPT !.template = template]

C16_CopyAppendsLog ==
  [][ /\ (~copied /\ copied') =>
           /\ Len(logs') = Len(logs) + 1
           /\ logs'[Len(logs')]
                = CopyLogOf(CardCommand, replaceVariables(template, values))
      /\ \A i \in DOMAIN logs : i \in DOMAIN logs' /\ logs'[i] = logs[i]
    ]_vars

\* ------------------------------------------------------------------------
\* C17: while an AI request of an editor is pending, no user action starts
\* a second one, neither a click on Generate nor Enter in the prompt input:
\* at most one request is in flight.
\* ------------------------------------------------------------------------
C17_OneRequestInFlight ==
  [][ pending.fresh >= 1 => pending'.fresh <= pending.fresh ]_vars

\* ------------------------------------------------------------------------
\* C18: the response of an AI request is applied to the form only if the
\* editor was not closed or reset since the request was issued: a late
\* response never overwrites the form contents of a later session.
\* ------------------------------------------------------------------------
StaleArrival ==
  /\ pending'.stale = pending.stale - 1
  /\ pending'.fresh = pending.fresh

C18_LateResponseIgnored ==
  [][ (StaleArrival /\ isEditorOpen) => formData' = formData ]_vars

\* ------------------------------------------------------------------------
\* C19: when an AI request fails (missing API key, network error, empty or
\* unparsable response), the failure is reported to the user, no field of
\* the form changes and the command store is unchanged.
\* ------------------------------------------------------------------------
FailureArrival ==
  /\ pending'.fresh + pending'.stale = pending.fresh + pending.stale - 1
  /\ lastOp'.op = "aiFailure"

C19_FailureKeepsForm ==
  [][ FailureArrival =>
        /\ alerts' = alerts + 1
        /\ formData' = formData
        /\ commands' = commands
        /\ blob' = blob ]_vars

C19_Witness ==
  /\ lastOp.op = "aiFailure"
  /\ alerts = 1
  /\ isEditorOpen
  /\ editingCommand = NoCommand
  /\ formData = [DEFAULT_FORM EXCEPT !.title = "Renamed"]

\* ------------------------------------------------------------------------
\* C20: a response that parses as JSON but lacks one of title, template,
\* description, category, tags is reported as a failure and never written
\* into the form: the form data always has all five fields.
\* ------------------------------------------------------------------------
C20_MalformedRejected ==
  /\ FormFields \subseteq DOMAIN formData
  /\ lastOp.op = "aiSuccess" => formData # JsonValues[PartialText]

\* ------------------------------------------------------------------------
\* C21: a command is deleted from a card only through a confirm step: the
\* first delete click only puts the card into the confirming state (with
\* its 3 second timer), the store's delete happens only by a click on a
\* card that is confirming, and a card is confirming exactly while its
\* timer runs; no single click removes a command.
\* ------------------------------------------------------------------------
C21_DeleteNeedsConfirm ==
  /\ [](\A id \in DOMAIN cards :
          cards[id].isDeleting <=> cards[id].timer \in 1..ConfirmSeconds)
  /\ [][ /\ \A id \in IdsOf(commands) \ IdsOf(commands') :
              id \in DOMAIN cards /\ cards[id].isDeleting
         /\ \A id \in DOMAIN cards \cap DOMAIN cards' :
              (~cards[id].isDeleting /\ cards'[id].isDeleting)
                 => /\ commands' = commands
                    /\ cards'[id].timer = ConfirmSeconds
       ]_vars

\* ------------------------------------------------------------------------
\* C22: when writing to the clipboard fails, the failure is surfaced to the
\* user (a notice is shown), the card does not enter the 'Copied' state, no
\* CopyLog is appended, and the command collection and the card's variable
\* bindings are unchanged.
\* ------------------------------------------------------------------------
C22_CopyFailureSurfaced ==
  [][ handleCopy(FALSE) =>
        /\ alerts' = alerts + 1
        /\ copied' = copied
        /\ logs' = logs
        /\ commands' = commands
        /\ values' = values
    ]_vars

\* ------------------------------------------------------------------------
\* C23: editing one variable value on a card changes only the binding of
\* that name: the other bindings of the card, every other card and the
\* command store are unchanged; a card that stays mounted never loses a
\* binding, whatever the step (a value edit, a copy, opening the editor).
\* ------------------------------------------------------------------------
BindingDiff(a, b) ==
  {k \in DOMAIN a \cup DOMAIN b :
     k \notin DOMAIN a \/ k \notin DOMAIN b \/ a[k] # b[k]}

C23_OnlyThatBinding ==
  [][ \A id \in DOMAIN cards \cap DOMAIN cards' :
        /\ DOMAIN cards[id].variables \subseteq DOMAIN cards'[id].variables
        /\ cards'[id].variables # cards[id].variables =>
             /\ Cardinality(BindingDiff(cards[id].variables,
                                        cards'[id].variables)) = 1
             /\ \A other \in DOMAIN cards \ {id} :
                  other \in DOMAIN cards' /\ cards'[other] = cards[other]
             /\ commands' = commands
             /\ blob' = blob
        /\ (lastOp' # lastOp \/ isEditorOpen' # isEditorOpen
              \/ editingCommand' # editingCommand)
             => cards'[id].variables = cards[id].variables
    ]_vars

\* both names of the second sample are bound, the first sample's name too,
\* the editor is open and a copy was made
C23_Witness ==
  /\ DecimalId(1) \in DOMAIN cards
  /\ DecimalId(2) \in DOMAIN cards
  /\ cards[DecimalId(1)].variables = (<<"message">> :> <<"x">>)
  /\ DOMAIN cards[DecimalId(2)].variables = {<<"path">>, <<"size">>}
  /\ cards[DecimalId(2)].variables[<<"path">>] = <<"x">>
  /\ isEditorOpen
  /\ lastOp.op = "copy"

\* ------------------------------------------------------------------------
\* C24: for every template and every binding map, the text the card
\* displays for the command is the same string as the one written to the
\* clipboard, replaceVariables of the template with the same bindings,
\* including for templates with line breaks or braces inside a marker.
\* ------------------------------------------------------------------------
C24_DisplayIsClipboard ==
  rendered => Display(template, values) = finalCommand

\* ------------------------------------------------------------------------
\* C25: for every template T and binding map B whose non-empty values
\* contain neither "{" nor "}", extractVariables(replaceVariables(T, B)) is
\* extractVariables(T) with the names that have a non-empty binding in B
\* removed and the order of the others kept.
\* ------------------------------------------------------------------------
C25_ExtractAfterReplace ==
  (/\ rendered
   /\ \A k \in DOMAIN values : BraceFree(values[k]))
    => extractVariables(finalCommand)
         = SelectSeq(placeholders, LAMBDA n : ~Bound(values, n))

\* ------------------------------------------------------------------------
\* C26: every name returned by extractVariables is a non-empty string
\* without leading or trailing white space, for every template, markers
\* with only white space between the braces included: the card shows no
\* variable input with an empty name.
\* ------------------------------------------------------------------------
C26_NamesNonEmptyTrimmed ==
  rendered =>
    \A i \in DOMAIN placeholders :
      /\ placeholders[i] # <<>>
      /\ Head(placeholders[i]) \notin WhiteSpace
      /\ placeholders[i][Len(placeholders[i])] \notin WhiteSpace

\* ------------------------------------------------------------------------
\* C27: the isGenerating flag of the editor is true exactly while an
\* AI-assist request is in flight: true from the start of a request, false
\* whenever no request is pending, never false while one is still pending.
\* ------------------------------------------------------------------------
C27_GeneratingIffPending ==
  isGenerating <=> (pending.fresh + pending.stale > 0)

\* ------------------------------------------------------------------------
\* C28: after any sequence of create, update, delete and category
\* selection actions, selectedCategory is "All" or the category of at least
\* one command in the store: it is one of the entries of the sidebar.
\* ------------------------------------------------------------------------
C28_SelectedCategoryOffered ==
  selectedCategory \in categories

\* ------------------------------------------------------------------------
\* C30: starting from a form whose tag list has no duplicates, after any
\* sequence of add-tag and remove-tag actions the tag list has no duplicate
\* and no empty or untrimmed tag; adding appends the trimmed input at the
\* end only when it is non-empty and not already present, and removing a
\* tag deletes it and keeps the other tags in their order.
\* ------------------------------------------------------------------------
NoDuplicate(tags) ==
  \A i, j \in DOMAIN tags : tags[i] = tags[j] => i = j

TrimmedTag(tag) == TagTable[tag] # <<>> /\ Trim(TagTable[tag]) = TagTable[tag]

\* a step that changes the list appends the trimmed, non-empty, absent input
\* or removes one tag
TagStep(tags, after) ==
  \/ /\ Trim(tagInput) # <<>>
     /\ TagText(Trim(tagInput)) \notin Range(tags)
     /\ after = Append(tags, TagText(Trim(tagInput)))
  \/ \E tag \in Range(tags) : after = SelectSeq(tags, LAMBDA t : t # tag)

C30_TagsClean ==
  /\ [](/\ NoDuplicate(formData.tags)
        /\ \A i \in DOMAIN formData.tags : TrimmedTag(formData.tags[i]))
  /\ [][formData.tags' # formData.tags
          => TagStep(formData.tags, formData.tags')]_vars

\* C30, amended: the list the sequence starts from has no duplicate and no
\* empty or untrimmed tag; every step keeps that
C30_TagsStayClean ==
  [][ /\ formData.tags' # formData.tags
          => TagStep(formData.tags, formData.tags')
      /\ (/\ NoDuplicate(formData.tags)
          /\ \A i \in DOMAIN formData.tags : TrimmedTag(formData.tags[i]))
         => /\ NoDuplicate(formData.tags')
            /\ \A i \in DOMAIN formData.tags' : TrimmedTag(formData.tags'[i])
    ]_vars

\* "a" was added, then "b", then "a" was removed and added again
C30_Witness ==
  /\ formData.tags = <<"b", "a">>
  /\ tagInput = <<>>

\* ------------------------------------------------------------------------
\* C29: each time the editor goes from closed to open the form is reset:
\* it holds the fields of the command being edited when one is given, else
\* the default form, with tag input and AI prompt empty; and nothing of an
\* earlier session reaches the form of a later one (where a submit would
\* save it): the form of an open editor is not changed by the response to
\* a request issued before the last close or reset.
\* ------------------------------------------------------------------------
C29_FormResetOnOpen ==
  [][ /\ (~isEditorOpen /\ isEditorOpen') =>
           /\ formData' = IF editingCommand' # NoCommand THEN editingCommand'
                          ELSE DEFAULT_FORM
           /\ tagInput' = <<>>
           /\ aiPrompt' = <<>>
      /\ (isEditorOpen /\ isEditorOpen' /\ pending'.stale < pending.stale)
           => formData' = formData
    ]_vars

====
